---- MODULE Spec2Model ----
(***************************************************************************)
(* Model of the derive macro `N` of the enumn crate (src/src/lib.rs).      *)
(*                                                                         *)
(* `derive` receives one parsed declaration (DeriveInput) and either       *)
(* panics, returns a compile_error diagnostic, or returns an `impl` block  *)
(* holding the function `n`.  The model runs `derive` statement by         *)
(* statement (pc), then lets callers apply the generated `n` to integers.  *)
(*                                                                         *)
(* Encodings.  A variant is named by its position in the declaration.      *)
(* Option<T> is a sequence of length 0 (None) or 1 (Some).  A token stream *)
(* is a sequence of token strings.                                         *)
(***************************************************************************)
EXTENDS Integers, Sequences, FiniteSets, TLC

VARIABLES input, pc, i, j, repr, output, called, arg, ret

vars == <<input, pc, i, j, repr, output, called, arg, ret>>

(***************************************************************************)
(* Bounds of the model.                                                    *)
(***************************************************************************)
MaxVariants == 3
MaxAttrs == 2

(***************************************************************************)
(* Input domain: syn's DeriveInput, as far as `derive` reads it.           *)
(***************************************************************************)
None == <<>>
Some(x) == <<x>>

\* Explicit discriminants the modelled declarations may write.
ExplicitValues == {66}

\* syn::Fields of a variant and its optional `= expr`.
VariantPool ==
    { [fields |-> "Unit", explicit |-> None] }
    \cup { [fields |-> "Unit", explicit |-> Some(v)] : v \in ExplicitValues }
    \cup { [fields |-> f, explicit |-> None] : f \in {"Named", "Unnamed"} }

\* One attribute: what attr.parse_meta() yields (meta, ident, nested) and the
\* attribute's raw tokens after the path (tts).
MetaWord(id) == [meta |-> "Word", ident |-> id, nested |-> <<>>, tts |-> <<>>]

RECURSIVE CommaJoin(_)
CommaJoin(words) ==
    IF Len(words) = 0 THEN <<>>
    ELSE IF Len(words) = 1 THEN words
    ELSE <<Head(words), ",">> \o CommaJoin(Tail(words))

MetaList(id, words) ==
    [meta |-> "List", ident |-> id,
     nested |-> [k \in 1..Len(words) |-> [kind |-> "Word", word |-> words[k]]],
     tts |-> <<"(">> \o CommaJoin(words) \o <<")">>]

AttrPool ==
    { MetaList("repr", <<"u8">>),
      MetaList("repr", <<"i16">>),
      MetaList("repr", <<"C", "u8">>),
      MetaList("repr", <<"u8", "C">>),
      MetaList("allow", <<"u8">>),
      MetaWord("non_exhaustive") }

SeqsUpTo(S, n) == UNION { [1..k -> S] : k \in 0..n }

\* Data::Struct and Data::Union carry no variants.
Inputs ==
    { [data |-> "Enum", variants |-> vs, attrs |-> as] :
        vs \in SeqsUpTo(VariantPool, MaxVariants), as \in SeqsUpTo(AttrPool, MaxAttrs) }
    \cup
    { [data |-> d, variants |-> <<>>, attrs |-> as] :
        d \in {"Struct", "Union"}, as \in SeqsUpTo(AttrPool, MaxAttrs) }

(***************************************************************************)
(* Host-language semantics the generated code relies on.                   *)
(***************************************************************************)
\* The integer tags of the match at lines 133-134.
Tags == {"u8", "u16", "u32", "u64", "u128", "usize",
         "i8", "i16", "i32", "i64", "i128", "isize"}

Signed(tag) == tag \in {"i8", "i16", "i32", "i64", "i128", "isize"}

\* 2^8 and 2^16; the wider types hold every integer of the model unchanged.
Modulus(tag) ==
    CASE tag \in {"u8", "i8"} -> 256
      [] tag \in {"u16", "i16"} -> 65536

\* `v as tag`: wraps into the range of the type.  Unsigned types wider than
\* 16 bits are only ever cast from non-negative values here.
Cast(v, tag) ==
    CASE tag \in {"u8", "i8", "u16", "i16"} ->
            LET m == Modulus(tag)
                r == v % m
            IN  IF Signed(tag) /\ 2 * r >= m THEN r - m ELSE r
      [] tag \in {"i32", "i64", "i128", "isize"} -> v
      [] tag \in {"u32", "u64", "u128", "usize"} /\ v >= 0 -> v

\* Whether integer v is a value of type tag.
InRange(v, tag) == (Signed(tag) \/ v >= 0) /\ Cast(v, tag) = v

\* The type a token stream denotes where the generated code uses it as a
\* type: a lone identifier, a parenthesized type `(T)`, or else a tuple.
TypeOfTokens(tokens) ==
    IF Len(tokens) = 1 THEN tokens[1]
    ELSE IF Len(tokens) = 3 /\ tokens[1] = "(" /\ tokens[3] = ")" THEN tokens[2]
    ELSE "tuple"

\* `#ident::#variant`: the discriminant rustc gives each variant, walking the
\* declaration with a running counter that starts at `counter`.
RECURSIVE AssignFrom(_, _)
AssignFrom(vs, counter) ==
    IF vs = <<>> THEN <<>>
    ELSE LET d == IF Head(vs).explicit = None THEN counter ELSE Head(vs).explicit[1]
         IN  <<d>> \o AssignFrom(Tail(vs), d + 1)

DiscriminantTable(vs) == AssignFrom(vs, 0)

(***************************************************************************)
(* Output items of `derive`.                                               *)
(***************************************************************************)
ShapeMessage == "enumn: variant with data is not supported"

\* Variant of CompileError: the diagnostic is anchored to the first variant of
\* the declaration instead of the offending one.
CompileErrorAtFirst(k) ==
    [item |-> "compile_error", span |-> 1, message |-> ShapeMessage]

\* Error::new(span, msg).to_compile_error(), span being the variant's ident.
CompileError(k) ==
    [item |-> "compile_error", span |-> k, message |-> ShapeMessage]

GenericSignature ==
    [name |-> "n", generics |-> <<[param |-> "REPR", bound |-> "Into<i64>"]>>,
     paramType |-> <<"REPR">>, returns |-> "Option<Self>"]

\* Variant of FixedSignature: the parameter is always the default wide type.
FixedSignatureWide(tokens) ==
    [name |-> "n", generics |-> <<>>, paramType |-> <<"i64">>, returns |-> "Option<Self>"]

FixedSignature(tokens) ==
    [name |-> "n", generics |-> <<>>, paramType |-> tokens, returns |-> "Option<Self>"]

\* Variant of DeclareDiscriminants: each constant after the first is
\* initialised from the preceding variant.
DeclareDiscriminantsShifted(vs, tokens) ==
    [k \in 1..Len(vs) |->
        [name |-> k, type |-> tokens,
         variant |-> IF k > 1 THEN k - 1 ELSE k, castTo |-> tokens]]

\* const #variant: #repr = #ident::#variant as #repr;
DeclareDiscriminants(vs, tokens) ==
    [k \in 1..Len(vs) |-> [name |-> k, type |-> tokens, variant |-> k, castTo |-> tokens]]

\* Variant of MatchDiscriminants: the arms yield the variants in reverse order.
MatchDiscriminantsReversed(vs) ==
    [k \in 1..Len(vs) |-> [pattern |-> k, result |-> Some(Len(vs) + 1 - k)]]

\* discriminant::#variant => Some(#ident::#variant),
MatchDiscriminants(vs) ==
    [k \in 1..Len(vs) |-> [pattern |-> k, result |-> Some(k)]]

\* The quoted impl block: signature, constants, scrutinee and arms, `_ => None`.
ImplBlock(vs, r) ==
    IF r # None
    THEN [item |-> "impl", signature |-> FixedSignature(r[1]),
          scrutinee |-> "value",
          consts |-> DeclareDiscriminants(vs, r[1]),
          arms |-> MatchDiscriminants(vs), fallthrough |-> None]
    ELSE [item |-> "impl", signature |-> GenericSignature,
          scrutinee |-> "<REPR as Into<i64>>::into(value)",
          consts |-> DeclareDiscriminants(vs, <<"i64">>),
          arms |-> MatchDiscriminants(vs), fallthrough |-> None]

(***************************************************************************)
(* The statements of `derive`.                                             *)
(***************************************************************************)
\* Variant of MatchEnum: shape validation is skipped.
MatchEnumSkipShape ==
    /\ pc = "match_data"
    /\ input.data = "Enum"
    /\ pc' = "attrs"
    /\ UNCHANGED <<input, i, j, repr, output, called, arg, ret>>

\* Lines 110-111: the input is an enum; take its variants.
MatchEnum ==
    /\ pc = "match_data"
    /\ input.data = "Enum"
    /\ pc' = "shape"
    /\ UNCHANGED <<input, i, j, repr, output, called, arg, ret>>

\* Variant of MatchNotEnum: a struct or a union gets a diagnostic, returned
\* normally.
MatchNotEnumDiagnostic ==
    /\ pc = "match_data"
    /\ input.data \in {"Struct", "Union"}
    /\ output' = <<CompileError(0)>>
    /\ pc' = "returned"
    /\ UNCHANGED <<input, i, j, repr, called, arg, ret>>

\* Line 112: a struct or a union panics.
MatchNotEnum ==
    /\ pc = "match_data"
    /\ input.data \in {"Struct", "Union"}
    /\ pc' = "panicked"
    /\ UNCHANGED <<input, i, j, repr, output, called, arg, ret>>

\* Line 117: the next variant is a unit variant.  i counts the variants
\* the loop has looked at.
ShapeUnit ==
    /\ pc = "shape"
    /\ i < Len(input.variants)
    /\ input.variants[i + 1].fields = "Unit"
    /\ i' = i + 1
    /\ UNCHANGED <<input, pc, j, repr, output, called, arg, ret>>

\* Lines 118-122: the next variant has fields; return the diagnostic.
ShapeData ==
    /\ pc = "shape"
    /\ i < Len(input.variants)
    /\ input.variants[i + 1].fields \in {"Named", "Unnamed"}
    /\ i' = i + 1
    /\ output' = <<CompileError(i + 1)>>
    /\ pc' = "returned"
    /\ UNCHANGED <<input, j, repr, called, arg, ret>>

\* Line 124: the loop over the variants ends.
ShapeDone ==
    /\ pc = "shape"
    /\ i = Len(input.variants)
    /\ pc' = "attrs"
    /\ UNCHANGED <<input, i, j, repr, output, called, arg, ret>>

\* Variant of Recognized: any nested item may spell the integer tag.
RecognizedAnyItem(attr) ==
    /\ attr.meta = "List"
    /\ attr.ident = "repr"
    /\ \E k \in 1..Len(attr.nested) :
          attr.nested[k].kind = "Word" /\ attr.nested[k].word \in Tags

\* Lines 129-134: a Meta::List named repr whose first nested item is a
\* Meta::Word spelling one of the integer tags.
Recognized(attr) ==
    /\ attr.meta = "List"
    /\ attr.ident = "repr"
    /\ Len(attr.nested) >= 1
    /\ attr.nested[1].kind = "Word"
    /\ attr.nested[1].word \in Tags

\* Variant of VisitAttr: an attribute that is not recognized clears repr.
VisitAttrReset(r, attr) == IF Recognized(attr) THEN Some(attr.tts) ELSE None

\* Variant of VisitAttr: once repr is set, later attributes do not replace it.
VisitAttrKeepFirst(r, attr) ==
    IF Recognized(attr) /\ r = None THEN Some(attr.tts) ELSE r

\* Lines 129-141: the body of the loop over the attributes.
VisitAttr(r, attr) == IF Recognized(attr) THEN Some(attr.tts) ELSE r

\* Lines 127-142 as a whole: the loop run over a list of attributes.
RECURSIVE ResolveFrom(_, _)
ResolveFrom(r, attrs) ==
    IF attrs = <<>> THEN r
    ELSE ResolveFrom(VisitAttr(r, Head(attrs)), Tail(attrs))

ResolveRepr(attrs) == ResolveFrom(None, attrs)

\* Lines 128-142: one iteration.  j counts the attributes consumed.
AttrStep ==
    /\ pc = "attrs"
    /\ j < Len(input.attrs)
    /\ repr' = VisitAttr(repr, input.attrs[j + 1])
    /\ j' = j + 1
    /\ UNCHANGED <<input, pc, i, output, called, arg, ret>>

AttrDone ==
    /\ pc = "attrs"
    /\ j = Len(input.attrs)
    /\ pc' = "synth"
    /\ UNCHANGED <<input, i, j, repr, output, called, arg, ret>>

\* Lines 144-191: build signature, value, constants and arms; return the impl.
\* Line 154 stores the default type in repr.
Synthesize ==
    /\ pc = "synth"
    /\ output' = <<ImplBlock(input.variants, repr)>>
    /\ repr' = IF repr = None THEN Some(<<"i64">>) ELSE repr
    /\ pc' = "returned"
    /\ UNCHANGED <<input, i, j, called, arg, ret>>

(***************************************************************************)
(* The generated function `n`, as rustc compiles it and callers run it.    *)
(***************************************************************************)
\* Integer tags rustc itself finds in the repr attributes (any position).
IntHints(attrs) ==
    UNION { { attrs[a].nested[k].word :
                k \in { m \in 1..Len(attrs[a].nested) : attrs[a].nested[m].word \in Tags } } :
            a \in { b \in 1..Len(attrs) :
                      attrs[b].meta = "List" /\ attrs[b].ident = "repr" } }

\* rustc accepts the declaration with the impl: no conflicting repr hints, no
\* two variants with one discriminant, and the interpolated tokens name an
\* integer type wherever the impl casts to them and matches on them.
Compiles(inp, fn) ==
    /\ Cardinality(IntHints(inp.attrs)) <= 1
    /\ \A a, b \in 1..Len(inp.variants) :
          a # b => DiscriminantTable(inp.variants)[a] # DiscriminantTable(inp.variants)[b]
    /\ \A k \in 1..Len(fn.consts) : TypeOfTokens(fn.consts[k].type) \in Tags
    /\ fn.signature.generics = <<>> => TypeOfTokens(fn.signature.paramType) \in Tags

\* The types with an Into<i64> conversion.
IntoI64Types == {"i8", "i16", "i32", "i64", "u8", "u16", "u32"}

\* The values a caller can pass as `value`.
Admissible(fn, v) ==
    IF fn.signature.generics = <<>>
    THEN InRange(v, TypeOfTokens(fn.signature.paramType))
    ELSE \E t \in IntoI64Types : InRange(v, t)

\* Variant of ConstValue: the constant is the variant's position, explicit
\* discriminants being ignored.
ConstValueByPosition(inp, fn, name) ==
    LET c == CHOOSE c \in { fn.consts[k] : k \in 1..Len(fn.consts) } : c.name = name
    IN  Cast(c.variant - 1, TypeOfTokens(c.castTo))

\* Value of the constant discriminant::name.
ConstValue(inp, fn, name) ==
    LET c == CHOOSE c \in { fn.consts[k] : k \in 1..Len(fn.consts) } : c.name = name
    IN  Cast(DiscriminantTable(inp.variants)[c.variant], TypeOfTokens(c.castTo))

\* The scrutinee of the match.
Scrutinee(fn, v) == IF fn.scrutinee = "value" THEN v ELSE Cast(v, "i64")

\* The match: the first arm whose constant equals the scrutinee, else `_`.
EvalN(inp, fn, v) ==
    LET hits == { k \in 1..Len(fn.arms) :
                    ConstValue(inp, fn, fn.arms[k].pattern) = Scrutinee(fn, v) }
    IN  IF hits = {} THEN fn.fallthrough
        ELSE fn.arms[CHOOSE k \in hits : \A h \in hits : k <= h].result

CallValues == (-1..MaxVariants) \cup (65..(66 + MaxVariants))

CallN ==
    /\ pc = "returned"
    /\ output[1].item = "impl"
    /\ Compiles(input, output[1])
    /\ \E v \in CallValues :
          /\ Admissible(output[1], v)
          /\ called' = TRUE
          /\ arg' = v
          /\ ret' = EvalN(input, output[1], v)
    /\ UNCHANGED <<input, pc, i, j, repr, output>>

Init ==
    /\ input \in Inputs
    /\ pc = "match_data"
    /\ i = 0
    /\ j = 0
    /\ repr = None
    /\ output = <<>>
    /\ called = FALSE
    /\ arg = 0
    /\ ret = None

Derive ==
    \/ MatchEnum
    \/ MatchNotEnum
    \/ ShapeUnit
    \/ ShapeData
    \/ ShapeDone
    \/ AttrStep
    \/ AttrDone
    \/ Synthesize

Next == Derive \/ CallN

Spec == Init /\ [][Next]_vars

\* `derive` is straight-line sequential code: an enabled statement is executed.
FairSpec == Spec /\ WF_vars(Derive)

(***************************************************************************)
(* Vocabulary of the properties.                                           *)
(***************************************************************************)
Terminated == pc \in {"returned", "panicked"}

Aborted == pc = "panicked" /\ output = <<>>

GaveDiagnostic ==
    pc = "returned" /\ Len(output) = 1 /\ output[1].item = "compile_error"

GaveFunction ==
    pc = "returned" /\ Len(output) = 1 /\ output[1].item = "impl"

\* The function is part of a program rustc accepts.
Usable == GaveFunction /\ Compiles(input, output[1])

DataVariants == { k \in 1..Len(input.variants) : input.variants[k].fields # "Unit" }

FirstDataVariant == CHOOSE k \in DataVariants : \A h \in DataVariants : k <= h

RecognizedAttrs == { a \in 1..Len(input.attrs) : Recognized(input.attrs[a]) }

FirstRecognized == CHOOSE a \in RecognizedAttrs : \A b \in RecognizedAttrs : a <= b

LastRecognized == CHOOSE a \in RecognizedAttrs : \A b \in RecognizedAttrs : a >= b

\* The discriminant the language gives variant k, stated per variant.
Resolved(k) == DiscriminantTable(input.variants)[k]

\* The constant the generated match compares against on the arm yielding variant k.
Associated(k) ==
    LET arm == CHOOSE a \in { output[1].arms[m] : m \in 1..Len(output[1].arms) } :
                   a.result = Some(k)
    IN  ConstValue(input, output[1], arm.pattern)

(***************************************************************************)
(* C1  Totality: in a program that compiles, a call of n whose argument    *)
(* equals the discriminant of variant V returns Some(V), in fixed-width    *)
(* mode and in generic mode.                                               *)
(***************************************************************************)
C1_Totality ==
    called =>
        \A k \in 1..Len(input.variants) : arg = Resolved(k) => ret = Some(k)

C1_Witness ==
    /\ called
    /\ output[1].signature.generics = <<>>
    /\ Len(input.variants) = 3
    /\ input.variants[2].explicit = Some(66)
    /\ arg = 67
    /\ ret = Some(3)

(***************************************************************************)
(* C2  Non-membership: a call of n whose argument equals no variant's      *)
(* discriminant returns None.                                              *)
(***************************************************************************)
C2_NonMembership ==
    called =>
        ((\A k \in 1..Len(input.variants) : arg # Resolved(k)) => ret = None)

C2_Witness ==
    /\ called
    /\ output[1].signature.generics # <<>>
    /\ Len(input.variants) = 3
    /\ input.variants[2].explicit = Some(66)
    /\ arg = 2
    /\ ret = None

(***************************************************************************)
(* C3  Sequential discriminant rule: the value the generated match         *)
(* associates with a variant is its explicit value if it has one, else 0   *)
(* for the first variant and the preceding variant's value plus one for a  *)
(* later one.                                                              *)
(***************************************************************************)
C3_SequentialRule ==
    Usable =>
        \A k \in 1..Len(input.variants) :
            Associated(k) =
                IF input.variants[k].explicit # None THEN input.variants[k].explicit[1]
                ELSE IF k = 1 THEN 0
                ELSE Associated(k - 1) + 1

C3_Witness ==
    /\ Usable
    /\ Len(input.variants) = 3
    /\ input.variants[1].explicit = None
    /\ input.variants[2].explicit = Some(66)
    /\ input.variants[3].explicit = None
    /\ Associated(1) = 0
    /\ Associated(2) = 66
    /\ Associated(3) = 67

(***************************************************************************)
(* C4  Representation binding: when the declaration's representation       *)
(* annotation is repr(t), t an integer tag, n takes exactly the type t and *)
(* matches on the value unconverted; when the declaration has no repr      *)
(* annotation, n is n<REPR: Into<i64>>(value: REPR), converts the value to *)
(* i64 before matching, and its constants are of type i64.                 *)
(***************************************************************************)
C4_ReprBinding ==
    GaveFunction =>
        /\ \A t \in Tags :
              ( /\ \E a \in 1..Len(input.attrs) : input.attrs[a] = MetaList("repr", <<t>>)
                /\ \A a \in RecognizedAttrs : input.attrs[a] = MetaList("repr", <<t>>) )
              => /\ output[1].signature.generics = <<>>
                 /\ TypeOfTokens(output[1].signature.paramType) = t
                 /\ output[1].scrutinee = "value"
                 /\ \A k \in 1..Len(output[1].consts) :
                       TypeOfTokens(output[1].consts[k].type) = t
        /\ (\A a \in 1..Len(input.attrs) : input.attrs[a].ident # "repr")
              => /\ output[1].signature.generics = <<[param |-> "REPR", bound |-> "Into<i64>"]>>
                 /\ output[1].signature.paramType = <<"REPR">>
                 /\ output[1].scrutinee = "<REPR as Into<i64>>::into(value)"
                 /\ \A k \in 1..Len(output[1].consts) :
                       /\ output[1].consts[k].type = <<"i64">>
                       /\ output[1].consts[k].castTo = <<"i64">>

C4_Witness ==
    /\ GaveFunction
    /\ input.attrs = <<MetaWord("non_exhaustive"), MetaList("repr", <<"i16">>)>>
    /\ Len(input.variants) = 2
    /\ TypeOfTokens(output[1].signature.paramType) = "i16"

(***************************************************************************)
(* C5  Shape rejection: when some variant has named or positional fields,  *)
(* no impl is ever emitted and the run ends by returning exactly one       *)
(* diagnostic, with the fixed message, anchored to the first such variant. *)
(***************************************************************************)
C5_ShapeRejection ==
    (input.data = "Enum" /\ DataVariants # {}) =>
        /\ \A k \in 1..Len(output) : output[k].item # "impl"
        /\ Terminated =>
              /\ pc = "returned"
              /\ Len(output) = 1
              /\ output[1].item = "compile_error"
              /\ output[1].span = FirstDataVariant
              /\ output[1].message = "enumn: variant with data is not supported"

C5_Witness ==
    /\ GaveDiagnostic
    /\ Len(input.variants) = 3
    /\ input.variants[1].fields = "Unit"
    /\ input.variants[2].fields = "Unnamed"
    /\ input.variants[3].fields = "Named"
    /\ output[1].span = 2

(***************************************************************************)
(* C6  Non-enum input: a struct or a union ends the run by a panic with no *)
(* output at all; a diagnostic is only ever returned normally, for an enum.*)
(***************************************************************************)
C6_NonEnumAborts ==
    /\ input.data \in {"Struct", "Union"} =>
          /\ output = <<>>
          /\ Terminated => pc = "panicked"
    /\ (\E k \in 1..Len(output) : output[k].item = "compile_error") =>
          pc = "returned" /\ input.data = "Enum"

C6_Witness ==
    /\ pc = "panicked"
    /\ input.data = "Union"
    /\ input.attrs # <<>>
    /\ output = <<>>

(***************************************************************************)
(* C7  Unrecognized annotations are ignored: the representation resolved   *)
(* from the annotations equals the one resolved from the recognized ones   *)
(* alone, and a declaration of unit variants with no recognized request    *)
(* yields the generic function.                                            *)
(***************************************************************************)
C7_UnrecognizedIgnored ==
    /\ pc = "synth" => repr = ResolveRepr(SelectSeq(input.attrs, Recognized))
    /\ (Terminated /\ input.data = "Enum" /\ DataVariants = {} /\ RecognizedAttrs = {}) =>
          /\ GaveFunction
          /\ output[1].signature = GenericSignature

C7_Witness ==
    /\ GaveFunction
    /\ input.attrs = <<MetaList("repr", <<"C", "u8">>), MetaList("allow", <<"u8">>)>>
    /\ Len(input.variants) = 2
    /\ output[1].signature = GenericSignature

(***************************************************************************)
(* C8  As claimed: with several recognized representation requests the     *)
(* parameter type of n comes from the first one.                           *)
(***************************************************************************)
C8_FirstWins ==
    (GaveFunction /\ RecognizedAttrs # {}) =>
        output[1].signature.paramType = input.attrs[FirstRecognized].tts

(***************************************************************************)
(* C8  As amended: with several recognized representation requests the     *)
(* parameter type of n comes from the last one; earlier ones are           *)
(* overridden.                                                             *)
(***************************************************************************)
C8_LastWins ==
    (GaveFunction /\ RecognizedAttrs # {}) =>
        output[1].signature.paramType = input.attrs[LastRecognized].tts

C8_Witness ==
    /\ GaveFunction
    /\ input.attrs = <<MetaList("repr", <<"u8">>), MetaList("repr", <<"i16">>)>>
    /\ TypeOfTokens(output[1].signature.paramType) = "i16"

(***************************************************************************)
(* C9  Stage ordering and single outcome: every run ends, in exactly one   *)
(* of abort, diagnostic, function, and stays there; a panic happens before *)
(* any variant or attribute is looked at; attributes are looked at only    *)
(* after every variant passed; a declaration with a data variant ends in   *)
(* the diagnostic for it with no attribute looked at.                      *)
(***************************************************************************)
StageRank ==
    CASE pc = "match_data" -> 0
      [] pc = "shape" -> 1
      [] pc = "attrs" -> 2
      [] pc = "synth" -> 3
      [] Terminated -> 4

C9_Outcome ==
    /\ Terminated =>
          /\ Cardinality({ o \in {"abort", "diagnostic", "function"} :
                \/ o = "abort" /\ Aborted
                \/ o = "diagnostic" /\ GaveDiagnostic
                \/ o = "function" /\ GaveFunction }) = 1
    /\ ~Terminated => output = <<>>
    /\ pc = "panicked" => i = 0 /\ j = 0 /\ repr = None
    /\ (j > 0 \/ repr # None \/ StageRank \in {2, 3}) =>
          i = Len(input.variants) /\ DataVariants = {}
    /\ (Terminated /\ input.data = "Enum" /\ DataVariants # {}) =>
          /\ output = <<CompileError(FirstDataVariant)>>
          /\ j = 0
          /\ repr = None

C9_Order ==
    /\ StageRank' >= StageRank
    /\ Terminated => UNCHANGED <<pc, i, j, repr, output>>

C9_StageOrdering == [](C9_Outcome) /\ [][C9_Order]_vars /\ <>Terminated

C9_Witness ==
    /\ GaveDiagnostic
    /\ input.attrs = <<MetaList("repr", <<"u8">>), MetaList("repr", <<"u8", "C">>)>>
    /\ Len(input.variants) = 3
    /\ output[1].span = 3
    /\ j = 0

(***************************************************************************)
(* C10  A repr annotation is classified by its first item only: when no    *)
(* repr annotation starts with an integer tag the function is generic,     *)
(* even if a later item is one; otherwise the parameter type is the whole  *)
(* payload of the last annotation that starts with one, not the tag alone. *)
(***************************************************************************)
FirstItemTagged ==
    { a \in 1..Len(input.attrs) :
        /\ input.attrs[a].ident = "repr"
        /\ Len(input.attrs[a].nested) >= 1
        /\ input.attrs[a].nested[1].word \in Tags }

Payload(a) ==
    <<"(">> \o CommaJoin([k \in 1..Len(input.attrs[a].nested) |-> input.attrs[a].nested[k].word])
            \o <<")">>

C10_FirstItemOnly ==
    GaveFunction =>
        /\ FirstItemTagged = {} => output[1].signature.generics # <<>>
        /\ FirstItemTagged # {} =>
              LET a == CHOOSE x \in FirstItemTagged : \A y \in FirstItemTagged : x >= y
              IN  /\ output[1].signature.generics = <<>>
                  /\ output[1].signature.paramType = Payload(a)
                  /\ Len(input.attrs[a].nested) > 1 =>
                        output[1].signature.paramType # <<"(", input.attrs[a].nested[1].word, ")">>

C10_Witness ==
    /\ GaveFunction
    /\ input.attrs = <<MetaList("repr", <<"C", "u8">>), MetaList("repr", <<"u8", "C">>)>>
    /\ output[1].signature.paramType = <<"(", "u8", ",", "C", ")">>
    /\ TypeOfTokens(output[1].signature.paramType) = "tuple"
====
